---- MODULE Spec2Model ----
(***************************************************************************)
(* A model of Main.py: the Grammar analysis (FIRST, FOLLOW, LL(1) table),  *)
(* the Lexer and the table-driven DPDA that builds a parse tree.           *)
(*                                                                         *)
(* A production rule is kept as the list of symbols that rule.split()      *)
(* yields; the productions dict is kept as the list of its items in        *)
(* insertion order, each item a record [nt, rules].                        *)
(***************************************************************************)
EXTENDS Integers, Sequences, FiniteSets, TLC

(***************************************************************************)
(* Bounds of the model.                                                    *)
(***************************************************************************)
\* total number of right-hand-side symbols and lexical rules a grammar file
\* may hold
MaxSymbols == 3
\* length of the token lists handed to build_parse_tree
MaxTokens == 3
\* number of tree nodes a parse may create before the model stops expanding
MaxNodes == 20
\* length of the texts handed to tokenize
MaxText == 3
\* number of tokens tokenize may emit before the model stops the loop
MaxEmitted == 4
\* rename_symbol calls on one returned tree
MaxRenames == 2
\* largest count passed to rename_symbol
MaxCount == 2

(***************************************************************************)
(* Vocabulary.                                                             *)
(***************************************************************************)
None == "None"
EPS == "eps"
END == "$"

NonTerminals == {"E", "E'", "T"}
Terminals == {"id", "+"}
\* the terminals of the grammars that LoadProduction enumerates
GenTerminals == {"id"}

\* the alternatives a production line may carry: eps alone, or symbols
RECURSIVE SeqsOfLen(_, _)
SeqsOfLen(S, n) ==
    IF n = 0 THEN {<<>>}
    ELSE {Append(s, x) : s \in SeqsOfLen(S, n - 1), x \in S}

Alternatives(n) ==
    IF n = 1 THEN SeqsOfLen(NonTerminals \cup GenTerminals, 1) \cup {<<EPS>>}
    ELSE SeqsOfLen(NonTerminals \cup GenTerminals, n)

VARIABLES
    pc,             \* "loading" while load_from_file reads lines, then "loaded"
    start_symbol,   \* Grammar.start_symbol
    non_terminals,  \* Grammar.non_terminals
    terminals,      \* Grammar.terminals
    productions,    \* Grammar.productions, items in insertion order
    lexical_rules,  \* Grammar.lexical_rules, items in insertion order
    first_sets,     \* Grammar.first_sets
    follow_sets,    \* Grammar.follow_sets
    parse_table,    \* Grammar.parse_table
    raised,         \* the exception the last Grammar operation raised, or None
    \* DPDA
    dpda_made,      \* a DPDA has been constructed
    dpda_table,     \* DPDA.parse_table
    toks,           \* build_parse_tree: tokens + ["$"]
    index,          \* build_parse_tree: index (0-based, as in the code)
    stack,          \* build_parse_tree: stack of [sym, node], top last
    nodes,          \* the ParseTreeNode objects created, root first
    pstatus,        \* "idle", "running", "accepted" (root returned), "failed"
    perror,         \* which error message the failed parse printed
    top_symbol,     \* build_parse_tree: the symbol popped last
    current_token,  \* build_parse_tree: the token it was compared with
    renames,        \* how many rename_symbol calls the returned tree has had
    \* Lexer
    lex_rules,      \* Lexer: the named groups of master_pattern, in order
    text,           \* tokenize: text
    pos,            \* tokenize: pos (0-based, as in the code)
    tokens,         \* tokenize: tokens
    lstatus,        \* "idle", "running", "returned", "error" (RuntimeError)
    lreturn,        \* what tokenize returned: [given, value]
    err_pos,        \* the position the RuntimeError message carries
    err_char        \* the character the RuntimeError message carries

gvars == <<pc, start_symbol, non_terminals, terminals, productions,
           lexical_rules,
           first_sets, follow_sets, parse_table, raised>>
dvars == <<dpda_made, dpda_table, toks, index, stack, nodes, pstatus, perror,
           top_symbol, current_token, renames>>
lvars == <<lex_rules, text, pos, tokens, lstatus, lreturn, err_pos, err_char>>
vars == <<gvars, dvars, lvars>>

(***************************************************************************)
(* dict helpers                                                            *)
(***************************************************************************)
\* d.get(k, set())
Get(d, k) == IF k \in DOMAIN d THEN d[k] ELSE {}

\* variant of Put that keeps a cell already assigned
PutFirstWins(d, k, v) ==
    [x \in DOMAIN d \cup {k} |-> IF x \in DOMAIN d THEN d[x] ELSE v]

\* d[k] = v  (a cell already assigned is overwritten)
Put(d, k, v) ==
    [x \in DOMAIN d \cup {k} |-> IF x = k THEN v ELSE d[x]]

\* the empty dict
EmptyDict == [x \in {} |-> {}]

\* number of right-hand-side symbols in a productions dict
RECURSIVE SumLens(_)
SumLens(rules) ==
    IF rules = <<>> THEN 0 ELSE Len(Head(rules)) + SumLens(Tail(rules))

RECURSIVE SizeOf(_)
SizeOf(prods) ==
    IF prods = <<>> THEN 0
    ELSE SumLens(Head(prods).rules) + SizeOf(Tail(prods))

Keys(prods) == {prods[k].nt : k \in 1..Len(prods)}

\* self.productions[lhs] (lhs a key)
RulesOf(prods, lhs) ==
    LET k == CHOOSE k \in 1..Len(prods) : prods[k].nt = lhs IN prods[k].rules

\* if lhs not in self.productions: self.productions[lhs] = []
\* self.productions[lhs].extend([alt])
AddAlternative(prods, lhs, alt) ==
    IF lhs \in Keys(prods)
    THEN [k \in 1..Len(prods) |->
            IF prods[k].nt = lhs
            THEN [nt |-> lhs, rules |-> Append(prods[k].rules, alt)]
            ELSE prods[k]]
    ELSE Append(prods, [nt |-> lhs, rules |-> <<alt>>])

\* the names a file gives its lexical rules, and the patterns between the
\* slashes: a piece is [cls, q], characters and a quantifier
LexNames == {"id", "PLUS"}
LexPatterns ==
    { <<[cls |-> {"+"}, q |-> "1"]>>,
      <<[cls |-> {" "}, q |-> "1"], [cls |-> {"+"}, q |-> "1"]>>,
      <<[cls |-> {"a", "b"}, q |-> "+"], [cls |-> {" "}, q |-> "1"]>> }

\* a blank written as itself
IsBlankPiece(piece) == piece = [cls |-> {" "}, q |-> "1"]

\* str.strip() on a pattern: the blanks at both ends go
RECURSIVE StripLeft(_)
StripLeft(pattern) ==
    IF pattern # <<>> /\ IsBlankPiece(Head(pattern))
    THEN StripLeft(Tail(pattern)) ELSE pattern

RECURSIVE StripRight(_)
StripRight(pattern) ==
    IF pattern # <<>> /\ IsBlankPiece(pattern[Len(pattern)])
    THEN StripRight(SubSeq(pattern, 1, Len(pattern) - 1)) ELSE pattern

StripEnds(pattern) == StripRight(StripLeft(pattern))

\* self.lexical_rules[lhs] = regex_pattern: a known name keeps its place
PutRule(rules, lhs, pattern) ==
    IF \E k \in 1..Len(rules) : rules[k].term = lhs
    THEN [k \in 1..Len(rules) |->
            IF rules[k].term = lhs
            THEN [term |-> lhs, pattern |-> pattern] ELSE rules[k]]
    ELSE Append(rules, [term |-> lhs, pattern |-> pattern])

\* self.lexical_rules.keys()
RuleNames(rules) == {rules[k].term : k \in 1..Len(rules)}

(***************************************************************************)
(* Grammar.compute_first_sets                                              *)
(***************************************************************************)
\* the loop over the symbols of one rule; st = [fs, changed]
\* Only the terminal/eps branch sets changed: the non-terminal branch
\* updates FIRST(nt) and leaves changed as it is.
RECURSIVE FirstSymbols(_, _, _, _, _)
FirstSymbols(terms, st, nt, symbols, i) ==
    IF i > Len(symbols)
    THEN \* for ... else: all symbols had eps
         IF EPS \notin st.fs[nt]
         THEN [fs |-> [st.fs EXCEPT ![nt] = @ \cup {EPS}], changed |-> TRUE]
         ELSE st
    ELSE LET symbol == symbols[i] IN
         IF symbol \in terms \/ symbol = EPS
         THEN IF symbol \notin st.fs[nt]
              THEN [fs |-> [st.fs EXCEPT ![nt] = @ \cup {symbol}],
                    changed |-> TRUE]
              ELSE st
         ELSE LET fs2 == [st.fs EXCEPT
                            ![nt] = @ \cup (Get(st.fs, symbol) \ {EPS})]
                  st2 == [fs |-> fs2, changed |-> st.changed]
              IN IF EPS \in Get(fs2, symbol)
                 THEN FirstSymbols(terms, st2, nt, symbols, i + 1)
                 ELSE st2

\* for rule in rules
RECURSIVE FirstRules(_, _, _, _, _)
FirstRules(terms, st, nt, rules, j) ==
    IF j > Len(rules) THEN st
    ELSE FirstRules(terms, FirstSymbols(terms, st, nt, rules[j], 1),
                    nt, rules, j + 1)

\* for nt, rules in self.productions.items()
RECURSIVE FirstPass(_, _, _, _)
FirstPass(terms, prods, st, k) ==
    IF k > Len(prods) THEN st
    ELSE FirstPass(terms, prods,
                   FirstRules(terms, st, prods[k].nt, prods[k].rules, 1),
                   k + 1)

\* while changed
RECURSIVE FirstLoop(_, _, _)
FirstLoop(terms, prods, fs) ==
    LET st == FirstPass(terms, prods, [fs |-> fs, changed |-> FALSE], 1)
    IN IF st.changed THEN FirstLoop(terms, prods, st.fs) ELSE st.fs

compute_first_sets(nts, terms, prods) ==
    FirstLoop(terms, prods, [nt \in nts |-> {}])

(***************************************************************************)
(* Grammar._first_of_sequence                                              *)
(***************************************************************************)
RECURSIVE FirstOfSeqFrom(_, _, _, _, _, _)
FirstOfSeqFrom(nts, terms, fs, seq, i, result) ==
    IF i > Len(seq) THEN result \cup {EPS}
    ELSE LET sym == seq[i] IN
         IF sym \in terms THEN result \cup {sym}
         ELSE IF sym \in nts
         THEN LET r2 == result \cup (Get(fs, sym) \ {EPS}) IN
              IF EPS \notin Get(fs, sym) THEN r2
              ELSE FirstOfSeqFrom(nts, terms, fs, seq, i + 1, r2)
         ELSE result \cup {sym}

first_of_sequence(nts, terms, fs, seq) ==
    FirstOfSeqFrom(nts, terms, fs, seq, 1, {})

(***************************************************************************)
(* Grammar.compute_follow_sets                                             *)
(***************************************************************************)
\* for i, sym in enumerate(symbols); st = [fo, changed]
RECURSIVE FollowSymbols(_, _, _, _, _, _, _)
FollowSymbols(nts, terms, fs, st, lhs, symbols, i) ==
    IF i > Len(symbols) THEN st
    ELSE LET sym == symbols[i] IN
         IF sym \in nts
         THEN LET next_symbols == SubSeq(symbols, i + 1, Len(symbols))
                  follow_before == st.fo[sym]
                  first_next == first_of_sequence(nts, terms, fs, next_symbols)
                  fo1 == [st.fo EXCEPT ![sym] = @ \cup (first_next \ {EPS})]
                  fo2 == IF EPS \in first_next \/ next_symbols = <<>>
                         THEN [fo1 EXCEPT ![sym] = @ \cup fo1[lhs]]
                         ELSE fo1
                  st2 == [fo |-> fo2,
                          changed |-> st.changed \/ follow_before # fo2[sym]]
              IN FollowSymbols(nts, terms, fs, st2, lhs, symbols, i + 1)
         ELSE FollowSymbols(nts, terms, fs, st, lhs, symbols, i + 1)

RECURSIVE FollowRules(_, _, _, _, _, _, _)
FollowRules(nts, terms, fs, st, lhs, rules, j) ==
    IF j > Len(rules) THEN st
    ELSE FollowRules(nts, terms, fs,
                     FollowSymbols(nts, terms, fs, st, lhs, rules[j], 1),
                     lhs, rules, j + 1)

RECURSIVE FollowPass(_, _, _, _, _, _)
FollowPass(nts, terms, fs, prods, st, k) ==
    IF k > Len(prods) THEN st
    ELSE FollowPass(nts, terms, fs, prods,
                    FollowRules(nts, terms, fs, st,
                                prods[k].nt, prods[k].rules, 1),
                    k + 1)

\* variant of FollowLoop that makes one pass and does not repeat it
FollowLoopOnce(nts, terms, fs, prods, fo) ==
    FollowPass(nts, terms, fs, prods, [fo |-> fo, changed |-> FALSE], 1).fo

RECURSIVE FollowLoop(_, _, _, _, _)
FollowLoop(nts, terms, fs, prods, fo) ==
    LET st == FollowPass(nts, terms, fs, prods,
                         [fo |-> fo, changed |-> FALSE], 1)
    IN IF st.changed THEN FollowLoop(nts, terms, fs, prods, st.fo) ELSE st.fo

\* variant of compute_follow_sets without the "$" of line 171
compute_follow_sets_unseeded(nts, terms, fs, prods, start) ==
    FollowLoop(nts, terms, fs, prods, [nt \in nts |-> {}])

\* the FOLLOW sets when the start symbol is set
compute_follow_sets(nts, terms, fs, prods, start) ==
    FollowLoop(nts, terms, fs, prods,
               [nt \in nts |-> IF nt = start THEN {END} ELSE {}])

(***************************************************************************)
(* Grammar.build_parse_table (after the two set computations)              *)
(***************************************************************************)
\* for terminal in S: row[terminal] = rule
RECURSIVE AssignAll(_, _, _)
AssignAll(row, S, rule) ==
    IF S = {} THEN row
    ELSE LET t == CHOOSE t \in S : TRUE
         IN AssignAll(Put(row, t, rule), S \ {t}, rule)

\* variant of TableRule without the FOLLOW assignments of lines 200-202
TableRuleNoFollow(nts, terms, fs, fo, row, nt, rule) ==
    LET first == first_of_sequence(nts, terms, fs, rule)
    IN AssignAll(row, first \ {EPS}, rule)

\* the body of "for rule in rules" for one rule
TableRule(nts, terms, fs, fo, row, nt, rule) ==
    LET first == first_of_sequence(nts, terms, fs, rule)
        row1 == AssignAll(row, first \ {EPS}, rule)
    IN IF EPS \in first THEN AssignAll(row1, fo[nt], rule) ELSE row1

RECURSIVE TableRules(_, _, _, _, _, _, _, _)
TableRules(nts, terms, fs, fo, row, nt, rules, j) ==
    IF j > Len(rules) THEN row
    ELSE TableRules(nts, terms, fs, fo,
                    TableRule(nts, terms, fs, fo, row, nt, rules[j]),
                    nt, rules, j + 1)

RECURSIVE TableProds(_, _, _, _, _, _, _)
TableProds(nts, terms, fs, fo, prods, table, k) ==
    IF k > Len(prods) THEN table
    ELSE LET nt == prods[k].nt IN
         TableProds(nts, terms, fs, fo, prods,
                    [table EXCEPT ![nt] =
                        TableRules(nts, terms, fs, fo, @, nt,
                                   prods[k].rules, 1)],
                    k + 1)

build_table(nts, terms, fs, fo, prods) ==
    TableProds(nts, terms, fs, fo, prods, [nt \in nts |-> EmptyDict], 1)

(***************************************************************************)
(* DPDA.build_parse_tree                                                   *)
(***************************************************************************)
\* variant of Lookup that falls back on another cell of the row
LookupDefault(table, top, cur) ==
    IF top \in DOMAIN table /\ DOMAIN table[top] # {}
    THEN IF cur \in DOMAIN table[top] THEN table[top][cur]
         ELSE table[top][CHOOSE t \in DOMAIN table[top] : TRUE]
    ELSE <<>>

\* self.parse_table.get(top_symbol, {}).get(current_token); <<>> is None
Lookup(table, top, cur) ==
    IF top \in DOMAIN table /\ cur \in DOMAIN table[top]
    THEN table[top][cur]
    ELSE <<>>

\* variant of Accepts that does not look at the current token
AcceptsOnTop(top, cur) == top = END

\* top_symbol == current_token == "$"
Accepts(top, cur) == top = END /\ cur = END

\* [sym for sym in symbols if sym != "eps"]
ChildSymbols(symbols) == SelectSeq(symbols, LAMBDA x : x # EPS)

Min(a, b) == IF a <= b THEN a ELSE b

\* the entries appended to the stack, in the order they are appended:
\* reversed(list(zip(symbols, children_nodes))) without the eps pairs;
\* zip pairs the i-th symbol with the i-th child, the node base+i
RECURSIVE PushedFrom(_, _, _)
PushedFrom(symbols, base, i) ==
    IF i = 0 THEN <<>>
    ELSE IF symbols[i] # EPS
         THEN <<[sym |-> symbols[i], node |-> base + i]>>
              \o PushedFrom(symbols, base, i - 1)
         ELSE PushedFrom(symbols, base, i - 1)

\* variant of Pushed that appends the pairs without reversing them
RECURSIVE PushedForward(_, _, _, _)
PushedForward(symbols, base, i, m) ==
    IF i > m THEN <<>>
    ELSE IF symbols[i] # EPS
         THEN <<[sym |-> symbols[i], node |-> base + i]>>
              \o PushedForward(symbols, base, i + 1, m)
         ELSE PushedForward(symbols, base, i + 1, m)

PushedUnreversed(symbols, base) ==
    PushedForward(symbols, base, 1,
                  Min(Len(symbols), Len(ChildSymbols(symbols))))

Pushed(symbols, base) ==
    PushedFrom(symbols, base, Min(Len(symbols), Len(ChildSymbols(symbols))))

\* variant of Pop that reads the stack without removing the top entry
Peek(stk) == stk

\* what stack.pop() leaves on the stack
Pop(stk) == SubSeq(stk, 1, Len(stk) - 1)

\* variant of NewNodes that labels every child with the first symbol
NewNodesFirst(syms) ==
    [i \in 1..Len(syms) |-> [symbol |-> syms[1], children |-> <<>>]]

\* ParseTreeNode(sym) for each child symbol
NewNodes(syms) == [i \in 1..Len(syms) |-> [symbol |-> syms[i], children |-> <<>>]]

\* variant of AddChildren that attaches the new nodes last one first
AddChildrenReversed(ns, node, base, n) ==
    IF node = 0 THEN ns
    ELSE [ns EXCEPT ![node].children = @ \o [i \in 1..n |-> base + n + 1 - i]]

\* node.add_child for the nodes base+1 .. base+n, in order (node 0 is None)
AddChildren(ns, node, base, n) ==
    IF node = 0 THEN ns
    ELSE [ns EXCEPT ![node].children = @ \o [i \in 1..n |-> base + i]]

(***************************************************************************)
(* The program as a state machine                                          *)
(***************************************************************************)
\* no DPDA yet, no parse started
DPDAIdle ==
    /\ dpda_made = FALSE
    /\ dpda_table = EmptyDict
    /\ toks = <<>>
    /\ index = 0
    /\ stack = <<>>
    /\ nodes = <<>>
    /\ pstatus = "idle"
    /\ perror = None
    /\ top_symbol = None
    /\ current_token = None
    /\ renames = 0

\* Grammar() followed by the START, NON_TERMINALS and TERMINALS lines
GrammarInit ==
    /\ pc = "loading"
    /\ start_symbol = "E"
    /\ non_terminals = NonTerminals
    /\ terminals = GenTerminals
    /\ productions = <<>>
    /\ lexical_rules = <<>>
    /\ first_sets = EmptyDict
    /\ follow_sets = EmptyDict
    /\ parse_table = EmptyDict
    /\ raised = None

\* no Lexer yet
LexerIdle ==
    /\ lex_rules = <<>>
    /\ text = <<>>
    /\ pos = 0
    /\ tokens = <<>>
    /\ lstatus = "idle"
    /\ lreturn = [given |-> FALSE, value |-> <<>>]
    /\ err_pos = 0
    /\ err_char = None

Init == GrammarInit /\ DPDAIdle /\ LexerIdle

\* the program is sequential: no call starts while build_parse_tree runs
NoCallRunning == pstatus # "running" /\ lstatus # "running"

\* load_from_file: one production line "lhs -> alt"
LoadProduction(lhs, alt) ==
    /\ pc = "loading"
    /\ SizeOf(productions) + Len(lexical_rules) + Len(alt) <= MaxSymbols
    /\ productions' = AddAlternative(productions, lhs, alt)
    /\ UNCHANGED <<pc, start_symbol, non_terminals, terminals, first_sets,
                   follow_sets, parse_table, raised>>
    /\ UNCHANGED <<dvars, lvars>>
    /\ UNCHANGED lexical_rules

\* load_from_file: one lexical rule line "lhs -> /pattern/"
LoadLexicalRule(lhs, pattern) ==
    /\ pc = "loading"
    /\ SizeOf(productions) + Len(lexical_rules) < MaxSymbols
    /\ lexical_rules' = PutRule(lexical_rules, lhs, StripEnds(pattern))
    /\ UNCHANGED <<pc, start_symbol, non_terminals, terminals, productions,
                   first_sets, follow_sets, parse_table, raised>>
    /\ UNCHANGED <<dvars, lvars>>

\* load_from_file returns: the names of the lexical rules join the terminals
FinishLoad ==
    /\ pc = "loading"
    /\ pc' = "loaded"
    /\ terminals' = terminals \cup RuleNames(lexical_rules)
    /\ UNCHANGED <<start_symbol, non_terminals, productions, lexical_rules,
                   first_sets, follow_sets, parse_table, raised>>
    /\ UNCHANGED <<dvars, lvars>>

ComputeFirstSets ==
    /\ pc = "loaded"
    /\ NoCallRunning
    /\ first_sets' = compute_first_sets(non_terminals, terminals, productions)
    /\ raised' = None
    /\ UNCHANGED <<pc, start_symbol, non_terminals, terminals, productions,
                   follow_sets, parse_table>>
    /\ UNCHANGED <<dvars, lvars>>
    /\ UNCHANGED lexical_rules

ComputeFollowSets ==
    /\ pc = "loaded"
    /\ NoCallRunning
    /\ IF start_symbol = None
       THEN /\ follow_sets' = [nt \in non_terminals |-> {}]
            /\ raised' = "RuntimeError"
       ELSE /\ follow_sets' = compute_follow_sets(non_terminals, terminals,
                                  first_sets, productions, start_symbol)
            /\ raised' = None
    /\ UNCHANGED <<pc, start_symbol, non_terminals, terminals, productions,
                   first_sets, parse_table>>
    /\ UNCHANGED <<dvars, lvars>>
    /\ UNCHANGED lexical_rules

\* variant of BuildParseTable that goes on to fill the table when the start
\* symbol is not set
BuildParseTableUnchecked ==
    /\ pc = "loaded"
    /\ NoCallRunning
    /\ LET fs == compute_first_sets(non_terminals, terminals, productions)
           fo == compute_follow_sets(non_terminals, terminals, fs,
                                     productions, start_symbol)
       IN /\ first_sets' = fs
          /\ follow_sets' = fo
          /\ parse_table' = build_table(non_terminals, terminals, fs, fo,
                                        productions)
          /\ raised' = None
    /\ UNCHANGED <<pc, start_symbol, non_terminals, terminals, productions>>
    /\ UNCHANGED <<dvars, lvars>>
    /\ UNCHANGED lexical_rules

\* variant of BuildParseTable that fills the dict parse_table refers to
\* instead of binding a new one, so that a DPDA made before sees the cells
BuildParseTableInPlace ==
    /\ pc = "loaded"
    /\ NoCallRunning
    /\ start_symbol # None
    /\ LET fs == compute_first_sets(non_terminals, terminals, productions)
           fo == compute_follow_sets(non_terminals, terminals, fs,
                                     productions, start_symbol)
       IN /\ first_sets' = fs
          /\ follow_sets' = fo
          /\ parse_table' = build_table(non_terminals, terminals, fs, fo,
                                        productions)
          /\ raised' = None
    /\ dpda_table' = IF dpda_made THEN parse_table' ELSE dpda_table
    /\ UNCHANGED <<pc, start_symbol, non_terminals, terminals, productions>>
    /\ UNCHANGED <<dpda_made, toks, index, stack, nodes, pstatus, perror,
                   top_symbol, current_token, renames>>
    /\ UNCHANGED lvars
    /\ UNCHANGED lexical_rules

BuildParseTable ==
    /\ pc = "loaded"
    /\ NoCallRunning
    /\ LET fs == compute_first_sets(non_terminals, terminals, productions)
       IN /\ first_sets' = fs
          /\ IF start_symbol = None
             THEN /\ follow_sets' = [nt \in non_terminals |-> {}]
                  /\ raised' = "RuntimeError"
                  /\ UNCHANGED parse_table
             ELSE LET fo == compute_follow_sets(non_terminals, terminals,
                                                fs, productions, start_symbol)
                  IN /\ follow_sets' = fo
                     /\ parse_table' = build_table(non_terminals, terminals,
                                                   fs, fo, productions)
                     /\ raised' = None
    /\ UNCHANGED <<pc, start_symbol, non_terminals, terminals, productions>>
    /\ UNCHANGED <<dvars, lvars>>
    /\ UNCHANGED lexical_rules

\* DPDA(grammar): the DPDA keeps the table grammar.parse_table refers to now;
\* the new object has run no build_parse_tree yet
NewDPDA ==
    /\ pc = "loaded"
    /\ NoCallRunning
    /\ dpda_made' = TRUE
    /\ dpda_table' = parse_table
    /\ toks' = <<>>
    /\ index' = 0
    /\ stack' = <<>>
    /\ nodes' = <<>>
    /\ pstatus' = "idle"
    /\ perror' = None
    /\ top_symbol' = None
    /\ current_token' = None
    /\ renames' = 0
    /\ UNCHANGED <<gvars, lvars>>

\* build_parse_tree(tokens) up to the first test of the while loop
StartParse(input) ==
    /\ dpda_made
    /\ NoCallRunning
    /\ toks' = input \o <<END>>
    /\ index' = 0
    /\ nodes' = <<[symbol |-> start_symbol, children |-> <<>>]>>
    /\ stack' = <<[sym |-> END, node |-> 0], [sym |-> start_symbol, node |-> 1]>>
    /\ pstatus' = "running"
    /\ perror' = None
    /\ top_symbol' = None
    /\ current_token' = None
    /\ renames' = 0
    /\ UNCHANGED <<dpda_made, dpda_table>>
    /\ UNCHANGED <<gvars, lvars>>

\* what follows the loop once the stack is empty
AfterLoop(idx) ==
    IF idx # Len(toks) - 1
    THEN [status |-> "failed", error |-> "notconsumed"]
    ELSE [status |-> "accepted", error |-> None]

\* one iteration of the while loop, and the code after the loop when the
\* iteration leaves the stack empty
ParseStep ==
    /\ pstatus = "running"
    /\ stack # <<>>
    /\ LET top == stack[Len(stack)].sym
           top_node == stack[Len(stack)].node
           rest == Pop(stack)
           cur == toks[index + 1]
           rule == Lookup(dpda_table, top, cur)
           kids == ChildSymbols(rule)
           base == Len(nodes)
       IN /\ top_symbol' = top
          /\ current_token' = cur
          /\ IF Accepts(top, cur)
             THEN /\ pstatus' = "accepted"
                  /\ perror' = None
                  /\ stack' = rest
                  /\ UNCHANGED <<index, nodes>>
             ELSE IF top = cur
             THEN /\ Len(nodes) < MaxNodes
                  /\ index' = index + 1
                  /\ nodes' = IF top_node # 0
                              THEN AddChildren(
                                     Append(nodes, [symbol |-> cur,
                                                    children |-> <<>>]),
                                     top_node, base, 1)
                              ELSE nodes
                  /\ stack' = rest
                  /\ IF rest = <<>>
                     THEN /\ pstatus' = AfterLoop(index + 1).status
                          /\ perror' = AfterLoop(index + 1).error
                     ELSE UNCHANGED <<pstatus, perror>>
             ELSE IF top \in terminals
             THEN /\ pstatus' = "failed"
                  /\ perror' = "mismatch"
                  /\ stack' = rest
                  /\ UNCHANGED <<index, nodes>>
             ELSE IF top \in non_terminals
             THEN IF rule = <<>>
                  THEN /\ pstatus' = "failed"
                       /\ perror' = "norule"
                       /\ stack' = rest
                       /\ UNCHANGED <<index, nodes>>
                  ELSE /\ Len(nodes) + Len(kids) <= MaxNodes
                       /\ nodes' = AddChildren(nodes \o NewNodes(kids),
                                               top_node, base, Len(kids))
                       /\ stack' = rest \o Pushed(rule, base)
                       /\ UNCHANGED index
                       /\ IF rest \o Pushed(rule, base) = <<>>
                          THEN /\ pstatus' = AfterLoop(index).status
                               /\ perror' = AfterLoop(index).error
                          ELSE UNCHANGED <<pstatus, perror>>
             ELSE /\ pstatus' = "failed"
                  /\ perror' = "unknown"
                  /\ stack' = rest
                  /\ UNCHANGED <<index, nodes>>
    /\ UNCHANGED <<dpda_made, dpda_table, toks, renames>>
    /\ UNCHANGED <<gvars, lvars>>

GrammarNext ==
    \/ \E n \in 1..(MaxSymbols - SizeOf(productions) - Len(lexical_rules)) :
         \E lhs \in NonTerminals, alt \in Alternatives(n) :
            LoadProduction(lhs, alt)
    \/ \E lhs \in LexNames, pattern \in LexPatterns :
         LoadLexicalRule(lhs, pattern)
    \/ FinishLoad
    \/ ComputeFirstSets
    \/ ComputeFollowSets
    \/ BuildParseTable

\* the grammar analysis over every grammar within MaxSymbols
Spec == Init /\ [][GrammarNext]_vars

(***************************************************************************)
(* Parsing with the grammars of the scenarios                              *)
(***************************************************************************)
\* E -> T E' ; E' -> + T E' | eps ; T -> id
ScenarioA ==
    << [nt |-> "E", rules |-> << <<"T", "E'">> >>],
       [nt |-> "E'", rules |-> << <<"+", "T", "E'">>, <<EPS>> >>],
       [nt |-> "T", rules |-> << <<"id">> >>] >>

\* E -> id
SingleId == << [nt |-> "E", rules |-> << <<"id">> >>] >>

\* E -> T + ; T -> id
IdPlus ==
    << [nt |-> "E", rules |-> << <<"T", "+">> >>],
       [nt |-> "T", rules |-> << <<"id">> >>] >>

\* E -> id E | eps
IdList == << [nt |-> "E", rules |-> << <<"id", "E">>, <<EPS>> >>] >>

\* E -> T | id x ; T -> x, where x is declared neither as a terminal nor
\* as a non-terminal
Undeclared ==
    << [nt |-> "E", rules |-> << <<"T">>, <<"id", "x">> >>],
       [nt |-> "T", rules |-> << <<"x">> >>] >>

\* E -> id | E + : the later alternative takes the cell of id, so E comes
\* back to the top of the stack with no token consumed
LeftRecursive == << [nt |-> "E", rules |-> << <<"id">>, <<"E", "+">> >>] >>

ParseGrammars ==
    {ScenarioA, SingleId, IdPlus, IdList, Undeclared, LeftRecursive}

TokenLists == UNION {SeqsOfLen(Terminals, n) : n \in 0..MaxTokens}

\* the state after load_from_file has read one of the grammars, from a file
\* with the line START = E or from one without a START line
ParseInit ==
    /\ pc = "loaded"
    /\ start_symbol \in {"E", None}
    /\ non_terminals = NonTerminals
    /\ terminals = Terminals
    /\ productions \in ParseGrammars
    /\ lexical_rules = <<>>
    /\ first_sets = EmptyDict
    /\ follow_sets = EmptyDict
    /\ parse_table = EmptyDict
    /\ raised = None
    /\ DPDAIdle
    /\ LexerIdle

ParseNext ==
    \/ ComputeFollowSets
    \/ BuildParseTable
    \/ NewDPDA
    \/ \E input \in TokenLists : StartParse(input)
    \/ ParseStep

SpecParse == ParseInit /\ [][ParseNext]_vars

\* build_parse_tree runs its loop to the end once it is called: an
\* iteration that can be made is made
SpecParseFair == ParseInit /\ [][ParseNext]_vars /\ WF_vars(ParseStep)

(***************************************************************************)
(* ParseTreeNode.rename_symbol on a returned tree                          *)
(***************************************************************************)
\* the labels rename_symbol is called with
RenameLabels == {"E", "id", "X"}

\* the count argument: None (not given) or a number
Counts ==
    {[given |-> FALSE, n |-> 0]} \cup {[given |-> TRUE, n |-> k] : k \in 0..MaxCount}

RECURSIVE RenameNode(_, _, _, _, _)
RECURSIVE RenameChildren(_, _, _, _, _, _)

\* variant of RenameNode that walks the children before it tests the node
RenameNodePost(st, n, old, new, count) ==
    LET st1 == RenameChildren(st, st.ns[n].children, 1, old, new, count)
        hit == /\ st1.ns[n].symbol = old
               /\ (~count.given \/ st1.replaced < count.n)
    IN IF hit
       THEN [ns |-> [st1.ns EXCEPT ![n].symbol = new],
             replaced |-> st1.replaced + 1]
       ELSE st1

\* _rename(node); st = [ns, replaced]
RenameNode(st, n, old, new, count) ==
    LET hit == /\ st.ns[n].symbol = old
               /\ (~count.given \/ st.replaced < count.n)
        st1 == IF hit
               THEN [ns |-> [st.ns EXCEPT ![n].symbol = new],
                     replaced |-> st.replaced + 1]
               ELSE st
    IN RenameChildren(st1, st.ns[n].children, 1, old, new, count)

\* for child in node.children: _rename(child)
RenameChildren(st, kids, i, old, new, count) ==
    IF i > Len(kids) THEN st
    ELSE RenameChildren(RenameNode(st, kids[i], old, new, count),
                        kids, i + 1, old, new, count)

\* root.rename_symbol(old, new, count) on the tree build_parse_tree returned
RenameSymbol(old, new, count) ==
    /\ pstatus = "accepted"
    /\ NoCallRunning
    /\ renames < MaxRenames
    /\ nodes' = RenameNode([ns |-> nodes, replaced |-> 0], 1,
                           old, new, count).ns
    /\ renames' = renames + 1
    /\ UNCHANGED <<dpda_made, dpda_table, toks, index, stack, pstatus, perror,
                   top_symbol, current_token>>
    /\ UNCHANGED <<gvars, lvars>>

RenameNext ==
    \/ ParseNext
    \/ \E old \in RenameLabels, new \in RenameLabels, count \in Counts :
          RenameSymbol(old, new, count)

SpecRename == ParseInit /\ [][RenameNext]_vars

(***************************************************************************)
(* Lexer                                                                   *)
(*                                                                         *)
(* A pattern is a list of pieces [cls, q]: a character or a bracketed      *)
(* class written with literal characters, and its quantifier ("1" none,    *)
(* "?", "*", "+", all greedy). A text is a list of characters.             *)
(***************************************************************************)
Alphabet == {"a", "b", "+", " "}
\* the characters of the alphabet for which str.isspace() holds
Whitespace == {" "}
\* [a-z] over the alphabet
Lower == {"a", "b"}

\* pattern.replace(" ", ""): a literal space is dropped from the pattern
RECURSIVE StripSpaces(_)
StripSpaces(pattern) ==
    IF pattern = <<>> THEN <<>>
    ELSE LET piece == Head(pattern)
             cls == piece.cls \ {" "}
         IN IF cls = {} THEN StripSpaces(Tail(pattern))
            ELSE <<[cls |-> cls, q |-> piece.q]>> \o StripSpaces(Tail(pattern))

\* Lexer.__init__: self.terminals and the groups of master_pattern
CompileRules(rules) ==
    [k \in 1..Len(rules) |->
        [term |-> rules[k].term, pattern |-> StripSpaces(rules[k].pattern)]]

\* the number of characters from position p on that belong to cls
RECURSIVE RunLen(_, _, _)
RunLen(cls, txt, p) ==
    IF p < Len(txt) /\ txt[p + 1] \in cls THEN 1 + RunLen(cls, txt, p + 1)
    ELSE 0

\* the end of the match the regex engine finds for the pieces i.. of a
\* pattern at position p, or -1: each greedy piece takes as many characters
\* as it can and gives them back one by one while the rest fails
RECURSIVE MatchEnd(_, _, _, _)
RECURSIVE TryCount(_, _, _, _, _, _)
TryCount(pattern, i, txt, p, k, lo) ==
    IF k < lo THEN -1
    ELSE LET r == MatchEnd(pattern, i + 1, txt, p + k)
         IN IF r # -1 THEN r ELSE TryCount(pattern, i, txt, p, k - 1, lo)

MatchEnd(pattern, i, txt, p) ==
    IF i > Len(pattern) THEN p
    ELSE LET piece == pattern[i]
             run == RunLen(piece.cls, txt, p)
             hi == IF piece.q \in {"1", "?"} THEN Min(1, run) ELSE run
             lo == IF piece.q \in {"1", "+"} THEN 1 ELSE 0
         IN TryCount(pattern, i, txt, p, hi, lo)

\* self.master_pattern.match(text, pos): the first alternative that matches;
\* [k, end] with k = 0 for no match
RECURSIVE MasterMatchFrom(_, _, _, _)
MasterMatchFrom(rules, txt, p, k) ==
    IF k > Len(rules) THEN [k |-> 0, end |-> p]
    ELSE LET e == MatchEnd(rules[k].pattern, 1, txt, p)
         IN IF e # -1 THEN [k |-> k, end |-> e]
            ELSE MasterMatchFrom(rules, txt, p, k + 1)

MasterMatch(rules, txt, p) == MasterMatchFrom(rules, txt, p, 1)

\* variant of IsSpace that lets every unmatched character be skipped
IsSpaceOrUnknown(c) == TRUE

\* text[pos].isspace()
IsSpace(c) == c \in Whitespace

\* Lexer.tokenize(text) up to the first test of the while loop
Tokenize(txt) ==
    /\ lex_rules # <<>>
    /\ NoCallRunning
    /\ text' = txt
    /\ pos' = 0
    /\ tokens' = <<>>
    /\ lstatus' = "running"
    /\ lreturn' = [given |-> FALSE, value |-> <<>>]
    /\ err_pos' = 0
    /\ err_char' = None
    /\ UNCHANGED lex_rules
    /\ UNCHANGED <<gvars, dvars>>

\* one iteration of the while loop
LexStep ==
    /\ lstatus = "running"
    /\ pos < Len(text)
    /\ LET match == MasterMatch(lex_rules, text, pos) IN
       IF match.k = 0
       THEN IF IsSpace(text[pos + 1])
            THEN /\ pos' = pos + 1
                 /\ UNCHANGED <<tokens, lstatus, err_pos, err_char>>
            ELSE /\ lstatus' = "error"
                 /\ err_pos' = pos
                 /\ err_char' = text[pos + 1]
                 /\ UNCHANGED <<tokens, pos>>
       ELSE /\ Len(tokens) < MaxEmitted
            /\ tokens' = Append(tokens, lex_rules[match.k].term)
            /\ pos' = match.end
            /\ UNCHANGED <<lstatus, err_pos, err_char>>
    /\ UNCHANGED <<lex_rules, text, lreturn>>
    /\ UNCHANGED <<gvars, dvars>>

\* the loop ends: return tokens
LexReturn ==
    /\ lstatus = "running"
    /\ pos >= Len(text)
    /\ lstatus' = "returned"
    /\ lreturn' = [given |-> TRUE, value |-> tokens]
    /\ UNCHANGED <<lex_rules, text, pos, tokens, err_pos, err_char>>
    /\ UNCHANGED <<gvars, dvars>>

(***************************************************************************)
(* Tokenizing with the rules of the scenarios                              *)
(***************************************************************************)
Lit(c) == [cls |-> {c}, q |-> "1"]

\* scenario C: PLUS -> \+ ; ID -> [a-z]+
ScenarioC ==
    << [term |-> "PLUS", pattern |-> <<Lit("+")>>],
       [term |-> "ID", pattern |-> <<[cls |-> Lower, q |-> "+"]>>] >>

\* a keyword before the identifiers: A -> a ; ID -> [a-z]+
KeywordFirst ==
    << [term |-> "A", pattern |-> <<Lit("a")>>],
       [term |-> "ID", pattern |-> <<[cls |-> Lower, q |-> "+"]>>] >>

\* a rule that matches the empty string: STAR -> a* ; B -> b
Starred ==
    << [term |-> "STAR", pattern |-> <<[cls |-> {"a"}, q |-> "*"]>>],
       [term |-> "B", pattern |-> <<Lit("b")>>] >>

\* patterns written with spaces: AA -> a* a ; BP -> b \+
Spaced ==
    << [term |-> "AA",
        pattern |-> <<[cls |-> {"a"}, q |-> "*"], Lit(" "), Lit("a")>>],
       [term |-> "BP", pattern |-> <<Lit("b"), Lit(" "), Lit("+")>>] >>

LexRuleSets == {ScenarioC, KeywordFirst, Starred, Spaced}

Texts == UNION {SeqsOfLen(Alphabet, n) : n \in 0..MaxText}

\* the state after Lexer(lexical_rules)
LexInit ==
    /\ GrammarInit
    /\ DPDAIdle
    /\ \E rules \in LexRuleSets : lex_rules = CompileRules(rules)
    /\ text = <<>>
    /\ pos = 0
    /\ tokens = <<>>
    /\ lstatus = "idle"
    /\ lreturn = [given |-> FALSE, value |-> <<>>]
    /\ err_pos = 0
    /\ err_char = None

LexNext ==
    \/ \E txt \in Texts : Tokenize(txt)
    \/ LexStep
    \/ LexReturn

SpecLex == LexInit /\ [][LexNext]_vars

(***************************************************************************)
(* Reference definitions used by the properties                            *)
(***************************************************************************)
\* the analysis has run on the loaded grammar
FirstComputed == pc = "loaded" /\ first_sets # EmptyDict
TableBuilt == pc = "loaded" /\ parse_table # EmptyDict

\* FIRST of one symbol over given FIRST sets: {X} for a terminal,
\* {eps} for eps, the set of the table for a non-terminal
SymFirst(fs, s) == IF s \in DOMAIN fs THEN fs[s] ELSE {s}

\* sequence-FIRST, stated declaratively
SeqFirst(fs, alpha) ==
    {x \in UNION {SymFirst(fs, alpha[i]) : i \in 1..Len(alpha)} :
        /\ x # EPS
        /\ \E i \in 1..Len(alpha) :
              /\ x \in SymFirst(fs, alpha[i])
              /\ \A j \in 1..(i - 1) : EPS \in SymFirst(fs, alpha[j])}
    \cup (IF \A j \in 1..Len(alpha) : EPS \in SymFirst(fs, alpha[j])
          THEN {EPS} ELSE {})

\* the (nt, rule) pairs of the productions
ProdPairs ==
    UNION {{<<productions[k].nt, productions[k].rules[j]>> :
              j \in 1..Len(productions[k].rules)} :
           k \in 1..Len(productions)}

EpsFree == \A p \in ProdPairs : EPS \notin {p[2][i] : i \in 1..Len(p[2])}

\* the symbols a leftmost derivation from A can begin with, searched to
\* the given depth (grammars without eps-productions)
RECURSIVE Begins(_, _)
Begins(A, depth) ==
    IF depth = 0 THEN {A}
    ELSE LET prev == Begins(A, depth - 1)
         IN prev \cup {p[2][1] : p \in {q \in ProdPairs : q[1] \in prev}}

RefFirst(A) ==
    Begins(A, Cardinality(non_terminals) + 1) \ non_terminals

(***************************************************************************)
(* C1: when compute_first_sets has returned, the FIRST sets are a fixed    *)
(* point: for every production A -> s1 ... sn, FIRST(A) contains           *)
(* FIRST(si) minus eps whenever s1..s(i-1) all have eps in FIRST, and eps  *)
(* when all of s1..sn have it.                                             *)
(***************************************************************************)
C1_FirstFixedPoint ==
    FirstComputed =>
        \A p \in ProdPairs : SeqFirst(first_sets, p[2]) \subseteq first_sets[p[1]]

(***************************************************************************)
(* C2: for a grammar without eps-productions, the computed FIRST(A) is     *)
(* exactly the set of terminals that can begin a string derivable from A.  *)
(***************************************************************************)
C2_FirstExact ==
    (FirstComputed /\ EpsFree) =>
        \A A \in non_terminals : first_sets[A] = RefFirst(A)

(***************************************************************************)
(* C3: after build_parse_table every production A -> alpha defines the     *)
(* cells of FIRST(alpha) minus eps and, if eps is in FIRST(alpha), those   *)
(* of FOLLOW(A); and every defined cell holds a production of A that       *)
(* assigns it by one of the two rules.                                     *)
(***************************************************************************)
Assigns(A, alpha, t) ==
    LET F == SeqFirst(first_sets, alpha)
    IN \/ t \in F \ {EPS}
       \/ EPS \in F /\ t \in follow_sets[A]

C3_TableCells ==
    TableBuilt =>
        /\ \A p \in ProdPairs :
              LET F == SeqFirst(first_sets, p[2]) IN
              /\ \A t \in F \ {EPS} : t \in DOMAIN parse_table[p[1]]
              /\ EPS \in F =>
                    \A t \in follow_sets[p[1]] : t \in DOMAIN parse_table[p[1]]
        /\ \A A \in DOMAIN parse_table : \A t \in DOMAIN parse_table[A] :
              /\ <<A, parse_table[A][t]>> \in ProdPairs
              /\ Assigns(A, parse_table[A][t], t)

\* a table with a cell assigned from FIRST and a cell assigned from FOLLOW
C3_Witness ==
    /\ TableBuilt
    /\ \E p \in ProdPairs :
          /\ EPS \in SeqFirst(first_sets, p[2])
          /\ \E t \in follow_sets[p[1]] : parse_table[p[1]][t] = p[2]
    /\ \E p \in ProdPairs :
          \E t \in SeqFirst(first_sets, p[2]) \ {EPS} :
             parse_table[p[1]][t] = p[2]

(***************************************************************************)
(* C4: a cell assigned by two or more productions of A is not reported;    *)
(* the build completes and the cell holds the production declared last     *)
(* among those that assign it.                                             *)
(***************************************************************************)
Assigners(A, t) ==
    {j \in 1..Len(RulesOf(productions, A)) :
        Assigns(A, RulesOf(productions, A)[j], t)}

Max(S) == CHOOSE x \in S : \A y \in S : y <= x

C4_LaterWins ==
    (pc = "loaded" /\ follow_sets # EmptyDict /\ first_sets # EmptyDict
        /\ parse_table # EmptyDict) =>
        \A A \in Keys(productions) : \A t \in Terminals \cup {END} :
           Cardinality(Assigners(A, t)) >= 2 =>
              /\ raised = None
              /\ t \in DOMAIN parse_table[A]
              /\ parse_table[A][t] = RulesOf(productions, A)[Max(Assigners(A, t))]

\* two different productions of one non-terminal assign the same cell
C4_Witness ==
    /\ TableBuilt
    /\ \E A \in Keys(productions) : \E t \in Terminals \cup {END} :
          \E i, j \in Assigners(A, t) :
             /\ i < j
             /\ RulesOf(productions, A)[i] # RulesOf(productions, A)[j]
             /\ parse_table[A][t] = RulesOf(productions, A)[Max(Assigners(A, t))]

(***************************************************************************)
(* C5: build_parse_tree returns the root only when the popped symbol and   *)
(* the current token are both $: every input token has been consumed and   *)
(* every symbol pushed by an expansion has been popped.                    *)
(***************************************************************************)
C5_AcceptOnlyAtEnd ==
    pstatus = "accepted" =>
        /\ top_symbol = END
        /\ current_token = END
        /\ index = Len(toks) - 1
        /\ stack = <<>>

\* a tree is returned for an input of three tokens
C5_Witness ==
    /\ pstatus = "accepted"
    /\ Len(toks) = 4
    /\ index = 3

(***************************************************************************)
(* C6: when only the end marker is left on the stack and the current token *)
(* is not $, build_parse_tree fails with "input not fully consumed", not   *)
(* with the terminal-mismatch or the unknown-symbol error.                 *)
(***************************************************************************)
C6_NotConsumedError ==
    (pstatus = "failed" /\ top_symbol = END /\ stack = <<>>
        /\ current_token # END) =>
        perror = "notconsumed"

(***************************************************************************)
(* C7: scenario A: with the built table of E -> T E', E' -> + T E' | eps,  *)
(* T -> id, the tokens id + id give a root E with children T, E'; that E'  *)
(* has children +, T, E', and the innermost E' has no children.            *)
(***************************************************************************)
ScenarioARun(input) ==
    /\ productions = ScenarioA
    /\ parse_table # EmptyDict
    /\ dpda_table = parse_table
    /\ toks = input \o <<END>>
    /\ pstatus \in {"accepted", "failed"}

Labels(ids) == [i \in 1..Len(ids) |-> nodes[ids[i]].symbol]

C7_ScenarioATree ==
    ScenarioARun(<<"id", "+", "id">>) =>
        /\ pstatus = "accepted"
        /\ nodes[1].symbol = "E"
        /\ Labels(nodes[1].children) = <<"T", "E'">>
        /\ LET e1 == nodes[1].children[2] IN
           /\ Labels(nodes[e1].children) = <<"+", "T", "E'">>
           /\ nodes[nodes[e1].children[3]].children = <<>>

C7_Witness ==
    /\ ScenarioARun(<<"id", "+", "id">>)
    /\ pstatus = "accepted"
    /\ Len(nodes[1].children) = 2

(***************************************************************************)
(* C8: a popped terminal that differs from the current token, or a popped  *)
(* non-terminal with no table entry for it, makes build_parse_tree fail at *)
(* that step: no token is consumed and nothing is expanded. Scenario B:    *)
(* the tokens id + fail for want of a production of T against $.           *)
(***************************************************************************)
NoTransition ==
    LET top == stack[Len(stack)].sym
        cur == toks[index + 1]
    IN /\ top # cur
       /\ \/ top \in terminals
          \/ /\ top \in non_terminals
             /\ ~(top \in DOMAIN dpda_table /\ cur \in DOMAIN dpda_table[top])

C8_RejectAtFirst ==
    /\ [][(pstatus = "running" /\ stack # <<>> /\ NoTransition) =>
            /\ pstatus' = "failed"
            /\ perror' \in {"mismatch", "norule"}
            /\ index' = index
            /\ nodes' = nodes
            /\ Len(stack') < Len(stack)]_vars
    /\ [](ScenarioARun(<<"id", "+">>) =>
            /\ pstatus = "failed"
            /\ perror = "norule"
            /\ top_symbol = "T"
            /\ current_token = END
            /\ index = 2)

\* scenario B has failed on T against $
C8_Witness ==
    /\ ScenarioARun(<<"id", "+">>)
    /\ pstatus = "failed"
    /\ perror = "norule"
    /\ top_symbol = "T"

(***************************************************************************)
(* Reference definitions for the lexer properties                          *)
(***************************************************************************)
\* the pieces i.. of the pattern match exactly the characters p+1 .. e
RECURSIVE MatchesFrom(_, _, _, _, _)
MatchesFrom(pattern, i, txt, p, e) ==
    IF i > Len(pattern) THEN p = e
    ELSE LET piece == pattern[i]
             lo == IF piece.q \in {"1", "+"} THEN 1 ELSE 0
             hi == IF piece.q \in {"1", "?"} THEN 1 ELSE e - p
         IN \E k \in lo..hi :
               /\ p + k <= e
               /\ \A c \in (p + 1)..(p + k) : txt[c] \in piece.cls
               /\ MatchesFrom(pattern, i + 1, txt, p + k, e)

\* rule k matches a non-empty prefix of the text at position p
MatchesNonEmpty(k, p) ==
    \E e \in (p + 1)..Len(text) : MatchesFrom(lex_rules[k].pattern, 1, text, p, e)

\* rule k matches some prefix, empty or not, of the text at position p
MatchesAny(k, p) ==
    \E e \in p..Len(text) : MatchesFrom(lex_rules[k].pattern, 1, text, p, e)

Last(seq) == seq[Len(seq)]

(***************************************************************************)
(* C9: a token emitted at a position has the kind of the first rule, in    *)
(* declaration order, that matches a non-empty prefix there; a rule that   *)
(* can match only the empty string never wins. With PLUS then ID the text  *)
(* a+b gives ID, PLUS, ID.                                                 *)
(***************************************************************************)
C9_FirstNonEmptyWins ==
    /\ [][(lstatus = "running" /\ Len(tokens') = Len(tokens) + 1) =>
            \E k \in 1..Len(lex_rules) :
               /\ MatchesNonEmpty(k, pos)
               /\ \A j \in 1..(k - 1) : ~MatchesNonEmpty(j, pos)
               /\ Last(tokens') = lex_rules[k].term]_vars
    /\ []((lex_rules = CompileRules(ScenarioC) /\ text = <<"a", "+", "b">>
             /\ lstatus \in {"returned", "error"}) =>
            (lreturn.given /\ lreturn.value = <<"ID", "PLUS", "ID">>))

(***************************************************************************)
(* C10: where no rule matches, a whitespace character is skipped (the      *)
(* position advances by one, no token is emitted) and any other character  *)
(* makes tokenize fail with an error carrying the position and the         *)
(* character; no token list is returned.                                   *)
(***************************************************************************)
C10_NoMatch ==
    /\ [][(lstatus = "running" /\ pos < Len(text)
             /\ \A k \in 1..Len(lex_rules) : ~MatchesAny(k, pos)) =>
            IF text[pos + 1] \in Whitespace
            THEN /\ pos' = pos + 1
                 /\ tokens' = tokens
                 /\ lstatus' = "running"
            ELSE /\ lstatus' = "error"
                 /\ err_pos' = pos
                 /\ err_char' = text[pos + 1]
                 /\ ~lreturn'.given]_vars
    /\ [](lstatus = "error" => ~lreturn.given)

\* a token, then a skipped blank, then the error at position 2
C10_Witness ==
    /\ lstatus = "error"
    /\ tokens # <<>>
    /\ err_pos = 2
    /\ text[2] \in Whitespace
    /\ err_char = text[3]
    /\ ~lreturn.given

(***************************************************************************)
(* C11: after compute_follow_sets has returned for a grammar whose start   *)
(* symbol is a known non-terminal, "$" is in FOLLOW(start symbol).         *)
(***************************************************************************)
FollowComputed ==
    pc = "loaded" /\ follow_sets # EmptyDict /\ raised = None

C11_EndInFollowStart ==
    (FollowComputed /\ start_symbol \in non_terminals) =>
        END \in follow_sets[start_symbol]

\* the start symbol occurs on a right-hand side, so the loop has added to
\* its FOLLOW set after the "$" was put there
C11_Witness ==
    /\ FollowComputed
    /\ start_symbol \in non_terminals
    /\ END \in follow_sets[start_symbol]
    /\ follow_sets[start_symbol] # {END}

(***************************************************************************)
(* C12: when compute_follow_sets returns, the FOLLOW sets are closed: for  *)
(* every production A -> ... B beta with B a non-terminal, FOLLOW(B)       *)
(* contains sequence-FIRST(beta) minus eps, and contains FOLLOW(A) when    *)
(* beta is empty or has eps in its sequence-FIRST; a further pass would    *)
(* add nothing.                                                            *)
(***************************************************************************)
\* FIRST of one symbol as compute_follow_sets reads it from first_sets
FollowSymFirst(s) ==
    IF s \in non_terminals THEN Get(first_sets, s) ELSE {s}

\* sequence-FIRST of beta over first_sets, stated declaratively
FollowSeqFirst(beta) ==
    {x \in UNION {FollowSymFirst(beta[i]) : i \in 1..Len(beta)} :
        /\ x # EPS
        /\ \E i \in 1..Len(beta) :
              /\ x \in FollowSymFirst(beta[i])
              /\ \A j \in 1..(i - 1) : EPS \in FollowSymFirst(beta[j])}
    \cup (IF \A j \in 1..Len(beta) : EPS \in FollowSymFirst(beta[j])
          THEN {EPS} ELSE {})

FollowClosed ==
    \A p \in ProdPairs : \A i \in 1..Len(p[2]) :
        p[2][i] \in non_terminals =>
            LET beta == SubSeq(p[2], i + 1, Len(p[2]))
                F == FollowSeqFirst(beta)
            IN /\ (F \ {EPS}) \subseteq follow_sets[p[2][i]]
               /\ (beta = <<>> \/ EPS \in F) =>
                     follow_sets[p[1]] \subseteq follow_sets[p[2][i]]

\* first_sets is what the last compute_follow_sets read: the call was made
\* before any FIRST set was computed, or by build_parse_table (after which
\* compute_first_sets returns the same sets again)
FollowCurrent ==
    FollowComputed /\ (first_sets = EmptyDict \/ parse_table # EmptyDict)

C12_FollowClosed ==
    FollowCurrent =>
        /\ FollowClosed
        /\ FollowPass(non_terminals, terminals, first_sets, productions,
                      [fo |-> follow_sets, changed |-> FALSE], 1).fo
              = follow_sets

\* closed FOLLOW sets where a set was passed on through two non-terminals:
\* id reached FOLLOW of the last symbol of a production of a non-terminal
\* that is not the start symbol
C12_Witness ==
    /\ FollowCurrent
    /\ FollowClosed
    /\ \E p \in ProdPairs :
          /\ p[1] # start_symbol
          /\ p[2][Len(p[2])] \in non_terminals \ {p[1]}
          /\ "id" \in follow_sets[p[1]]
          /\ "id" \in follow_sets[p[2][Len(p[2])]]

(***************************************************************************)
(* C13: when the start symbol is not set, compute_follow_sets fails        *)
(* before any FOLLOW set has received an element, and build_parse_table    *)
(* passes the failure on and leaves parse_table as it was before the call. *)
(***************************************************************************)
C13_StartNotSet ==
    [][((ComputeFollowSets \/ BuildParseTable) /\ start_symbol = None) =>
          /\ raised' = "RuntimeError"
          /\ \A nt \in DOMAIN follow_sets' : follow_sets'[nt] = {}
          /\ parse_table' = parse_table]_vars

\* build_parse_table has failed on a grammar without start symbol: the FIRST
\* sets are computed, the FOLLOW sets are empty and there is no table
C13_Witness ==
    /\ start_symbol = None
    /\ raised = "RuntimeError"
    /\ first_sets # EmptyDict
    /\ \E nt \in DOMAIN first_sets : first_sets[nt] # {}
    /\ DOMAIN follow_sets = non_terminals
    /\ \A nt \in non_terminals : follow_sets[nt] = {}
    /\ parse_table = EmptyDict

(***************************************************************************)
(* C14: rename_symbol(old, new, count) relabels, among the m nodes         *)
(* labelled old, exactly the first min(count, m) in depth-first pre-order  *)
(* (parent before children, children left to right), or all m when no      *)
(* count is given; no other label and no parent-child link changes. With   *)
(* count 0 the tree is unchanged; with no count and new different from     *)
(* old, no node labelled old remains.                                      *)
(***************************************************************************)
\* the nodes of the subtree of n in depth-first pre-order
RECURSIVE PreOrder(_, _)
RECURSIVE PreOrderAll(_, _, _)
PreOrder(ns, n) == <<n>> \o PreOrderAll(ns, ns[n].children, 1)

PreOrderAll(ns, kids, i) ==
    IF i > Len(kids) THEN <<>>
    ELSE PreOrder(ns, kids[i]) \o PreOrderAll(ns, kids, i + 1)

\* the tree with the first min(count, m) nodes labelled old relabelled
Renamed(ns, old, new, count) ==
    LET pre == PreOrder(ns, 1)
        hits == {i \in 1..Len(pre) : ns[pre[i]].symbol = old}
        m == Cardinality(hits)
        k == IF count.given THEN Min(count.n, m) ELSE m
        chosen == {pre[i] : i \in {j \in hits :
                                     Cardinality({h \in hits : h < j}) < k}}
    IN [n \in 1..Len(ns) |->
          IF n \in chosen THEN [ns[n] EXCEPT !.symbol = new] ELSE ns[n]]

C14_RenameFirstInPreOrder ==
    [][\A old \in RenameLabels, new \in RenameLabels, count \in Counts :
          RenameSymbol(old, new, count) =>
             /\ nodes' = Renamed(nodes, old, new, count)
             /\ (count.given /\ count.n = 0) => nodes' = nodes
             /\ (~count.given /\ new # old) =>
                   \A n \in 1..Len(nodes') : nodes'[n].symbol # old]_vars

\* one call with a count below m: two nodes are relabelled X and a node
\* later in pre-order still carries id
C14_Witness ==
    /\ pstatus = "accepted"
    /\ renames = 1
    /\ LET pre == PreOrder(nodes, 1)
           xs == {i \in 1..Len(pre) : nodes[pre[i]].symbol = "X"}
       IN /\ Cardinality(xs) = 2
          /\ \E k \in 1..Len(pre) :
                /\ nodes[pre[k]].symbol = "id"
                /\ \A i \in xs : i < k
          /\ nodes[1].symbol = "E"

(***************************************************************************)
(* C15: an expansion of the non-terminal A on top of the stack by a        *)
(* production X1 ... Xn pops A, attaches n new children labelled X1 .. Xn  *)
(* to A's node in left-to-right order, and pushes the symbols so that X1   *)
(* is on top and Xn deepest, each paired with its own new node; for the    *)
(* eps alternative A is popped, nothing is pushed and A's node gets no     *)
(* child. The nodes waiting on the stack are therefore processed in        *)
(* left-to-right order: a node nearer the top comes earlier in the tree.   *)
(***************************************************************************)
\* the production the next iteration expands the top of the stack by
\* (<<>> when the next iteration is no expansion)
Expansion ==
    IF pstatus = "running" /\ stack # <<>>
    THEN LET top == stack[Len(stack)].sym
             cur == toks[index + 1]
         IN IF /\ ~(top = END /\ cur = END)
               /\ top # cur
               /\ top \notin terminals
               /\ top \in non_terminals
               /\ top \in DOMAIN dpda_table
               /\ cur \in DOMAIN dpda_table[top]
            THEN dpda_table[top][cur]
            ELSE <<>>
    ELSE <<>>

\* the position of node n in the pre-order of the tree
PrePos(n) ==
    CHOOSE i \in 1..Len(nodes) : PreOrder(nodes, 1)[i] = n

C15_ExpansionOrder ==
    /\ [][Expansion # <<>> =>
            LET X == Expansion
                n == Len(X)
                A == stack[Len(stack)].node
                base == Len(nodes)
                depth == Len(stack) - 1
            IN /\ index' = index
               /\ \A i \in 1..depth : stack'[i] = stack[i]
               /\ IF X = <<EPS>>
                  THEN /\ Len(stack') = depth
                       /\ nodes' = nodes
                  ELSE /\ Len(stack') = depth + n
                       /\ \A i \in 1..n :
                             stack'[depth + n + 1 - i] =
                                [sym |-> X[i], node |-> base + i]
                       /\ Len(nodes') = base + n
                       /\ \A i \in 1..n :
                             nodes'[base + i] =
                                [symbol |-> X[i], children |-> <<>>]
                       /\ nodes'[A].children =
                             nodes[A].children \o [i \in 1..n |-> base + i]
                       /\ nodes'[A].symbol = nodes[A].symbol
                       /\ \A m \in 1..base : m # A => nodes'[m] = nodes[m]]_vars
    /\ [](pstatus = "running" =>
            \A i \in 1..Len(stack) : \A j \in 1..Len(stack) :
               (i < j /\ stack[i].node # 0) =>
                  PrePos(stack[j].node) < PrePos(stack[i].node))

\* E' has just been expanded by + T E': + is on top with the first of three
\* consecutive new nodes, E' deepest with the last
C15_Witness ==
    /\ pstatus = "running"
    /\ top_symbol = "E'"
    /\ Len(stack) >= 4
    /\ LET d == Len(stack)
           b == stack[d].node
       IN /\ stack[d] = [sym |-> "+", node |-> b]
          /\ stack[d - 1] = [sym |-> "T", node |-> b + 1]
          /\ stack[d - 2] = [sym |-> "E'", node |-> b + 2]
          /\ Len(nodes) = b + 2
          /\ \E m \in 1..Len(nodes) :
                /\ nodes[m].symbol = "E'"
                /\ nodes[m].children = <<b, b + 1, b + 2>>

(***************************************************************************)
(* C16: a right-hand-side symbol x that is neither a declared terminal     *)
(* nor a declared non-terminal (and is not eps) is treated as a terminal   *)
(* by compute_first_sets as it is by _first_of_sequence: after the build,  *)
(* x is in FIRST(A) for every production A -> x ..., and in FIRST(B) for   *)
(* every B with a production that begins with such an A, and the table     *)
(* has a cell [B][x] as well as a cell [A][x].                             *)
(***************************************************************************)
Undeclared_symbol(x) ==
    x \notin non_terminals /\ x \notin terminals /\ x # EPS

C16_UndeclaredAsTerminal ==
    TableBuilt =>
        \A p \in ProdPairs :
            Undeclared_symbol(p[2][1]) =>
                /\ p[2][1] \in first_sets[p[1]]
                /\ p[2][1] \in DOMAIN parse_table[p[1]]
                /\ \A q \in ProdPairs :
                      q[2][1] = p[1] =>
                         /\ p[2][1] \in first_sets[q[1]]
                         /\ p[2][1] \in DOMAIN parse_table[q[1]]

(***************************************************************************)
(* C17: with a table in which no non-terminal can come back to the top of  *)
(* the stack without a token having been consumed in between,              *)
(* build_parse_tree terminates on every finite token list: it returns the  *)
(* root or fails.                                                          *)
(***************************************************************************)
\* X on top of the stack is popped with lookahead t and leaves nothing
\* on the stack, looked up to the given depth of expansions
RECURSIVE Vanishes(_, _, _)
Vanishes(X, t, depth) ==
    /\ X \in non_terminals
    /\ X # t
    /\ LET rule == Lookup(dpda_table, X, t)
       IN /\ rule # <<>>
          /\ \A i \in 1..Len(rule) :
                \/ rule[i] = EPS
                \/ depth > 0 /\ Vanishes(rule[i], t, depth - 1)

\* the non-terminals that come to the top of the stack with lookahead t
\* still unconsumed, after A was expanded there
SilentNext(A, t) ==
    IF A \in non_terminals /\ A # t
    THEN LET rule == Lookup(dpda_table, A, t)
         IN {rule[i] : i \in {k \in 1..Len(rule) :
                /\ rule[k] \in non_terminals
                /\ \A j \in 1..(k - 1) :
                      \/ rule[j] = EPS
                      \/ Vanishes(rule[j], t, Cardinality(non_terminals))}}
    ELSE {}

RECURSIVE SilentReach(_, _, _)
SilentReach(S, t, depth) ==
    IF depth = 0 THEN S
    ELSE LET next == UNION {SilentNext(B, t) : B \in S}
         IN next \cup SilentReach(next, t, depth - 1)

NoSilentCycle ==
    \A A \in non_terminals : \A t \in terminals \cup {END} :
        A \notin SilentReach(SilentNext(A, t), t, Cardinality(non_terminals))

C17_ParseTerminates ==
    (pstatus = "running" /\ NoSilentCycle)
        ~> (pstatus \in {"accepted", "failed"})

\* a parse over a built table without silent cycle has ended after it
\* consumed three tokens and expanded the final E by eps
C17_Witness ==
    /\ pstatus = "accepted"
    /\ NoSilentCycle
    /\ productions = IdList
    /\ dpda_table # EmptyDict
    /\ index = 3
    /\ top_symbol = END

(***************************************************************************)
(* C18: tokenize terminates for every rule set: each iteration of its loop *)
(* strictly increases pos or raises an error, so a rule that can match the *)
(* empty string cannot make the loop repeat at the same position.          *)
(***************************************************************************)
C18_LexProgress ==
    [][(lstatus = "running" /\ pos < Len(text)) =>
          (pos' > pos \/ lstatus' = "error")]_vars

(***************************************************************************)
(* C19: every tree build_parse_tree returns is a derivation tree: a node   *)
(* labelled with a non-terminal A has no children, or children whose       *)
(* labels in order are the symbols of one production of A; every consumed  *)
(* token contributed exactly one leaf; and the labels of the childless     *)
(* nodes that carry a terminal label, read left to right, are the input    *)
(* token list.                                                             *)
(***************************************************************************)
\* the childless nodes with a terminal label, in left-to-right order
TokenLeaves ==
    SelectSeq(PreOrder(nodes, 1),
              LAMBDA n : nodes[n].children = <<>>
                         /\ nodes[n].symbol \in terminals)

C19_DerivationTree ==
    pstatus = "accepted" =>
        /\ \A n \in 1..Len(nodes) :
              nodes[n].symbol \in non_terminals =>
                 \/ nodes[n].children = <<>>
                 \/ <<nodes[n].symbol, Labels(nodes[n].children)>> \in ProdPairs
        /\ Len(TokenLeaves) = index
        /\ \A n \in 1..Len(nodes) :
              (nodes[n].symbol \in terminals /\ nodes[n].children # <<>>) =>
                 /\ Len(nodes[n].children) = 1
                 /\ nodes[nodes[n].children[1]] =
                       [symbol |-> nodes[n].symbol, children |-> <<>>]
        /\ Labels(TokenLeaves) = SubSeq(toks, 1, Len(toks) - 1)

\* the returned tree of a three-token input that used a production with
\* three symbols and the eps alternative
C19_Witness ==
    /\ pstatus = "accepted"
    /\ Len(TokenLeaves) = 3
    /\ \E n \in 1..Len(nodes) : Len(nodes[n].children) = 3
    /\ \E n \in 1..Len(nodes) :
          nodes[n].symbol \in non_terminals /\ nodes[n].children = <<>>

(***************************************************************************)
(* C20: a DPDA parses with the table grammar.parse_table referred to when  *)
(* the DPDA was constructed: build_parse_table binds a new table and       *)
(* leaves the DPDA's table untouched, so a DPDA constructed before the     *)
(* build parses with the old, empty table and fails at the first           *)
(* expansion.                                                              *)
(***************************************************************************)
C20_TableOfConstruction ==
    /\ [][(dpda_made /\ parse_table' # parse_table) =>
             dpda_table' = dpda_table]_vars
    /\ []((/\ dpda_made
           /\ dpda_table = EmptyDict
           /\ parse_table # EmptyDict
           /\ pstatus \in {"accepted", "failed"}) =>
             /\ pstatus = "failed"
             /\ perror = "norule"
             /\ index = 0
             /\ top_symbol = start_symbol
             /\ nodes = <<[symbol |-> start_symbol, children |-> <<>>]>>)

\* a DPDA made before the build has failed on a token list that the built
\* table of the grammar accepts
C20_Witness ==
    /\ dpda_made
    /\ dpda_table = EmptyDict
    /\ parse_table # EmptyDict
    /\ productions = SingleId
    /\ toks = <<"id", END>>
    /\ pstatus = "failed"
    /\ perror = "norule"

====
